---- MODULE Spec2Model ----
(***************************************************************************)
(* Model of mpf/platforms/lisy/lisy.py: the LISY hardware platform.         *)
(*                                                                         *)
(* The platform runs on one asyncio event loop.  A coroutine runs          *)
(* atomically from one suspension point (a read that has to wait, the      *)
(* 1 ms sleep) to the next, so every action below is one such segment.     *)
(* The controller board is the environment: it answers every command that  *)
(* expects a reply (DeviceReply).                                           *)
(***************************************************************************)
EXTENDS Integers, Sequences, FiniteSets, TLC

(* ------------------------------ bounds --------------------------------- *)

\* number of switch addresses whose bulk-read reply the device may vary
NumProbes == 1
\* largest lamp / solenoid / display count the device reports
MaxCount == 2
\* driver handles the host configures
NumHandles == 2
\* largest solenoid number the host configures
MaxSolenoid == 1
\* largest lamp / display index the host tries to configure
MaxIndex == 3

(* ------------------------- program constants --------------------------- *)

\* range(8) of the bulk switch read
Rows == 8
Cols == 8
\* features['max_pulse']
MaxPulse == 65536
\* "no change" status byte of the poll loop
NoChange == 127

None == "None"
\* None in an attribute that otherwise holds an int
NoInt == 0 - 1

\* no call of the host in the last step
NoCall == [op |-> None, arg |-> <<>>, result |-> None]

(* ------------------------------ inputs --------------------------------- *)

\* the bulk read with the loops over col and row exchanged
SwitchNumber_ColumnMajor(k) == (k % Cols) * 10 + (k \div Cols)

\* row-major positions 0 .. Rows*Cols-1 of the bulk read, and their numbers
SwitchNumber(k) == (k \div Cols) * 10 + (k % Cols)
NumSwitches == Rows * Cols
ProbeAddrs == {SwitchNumber((5 + 29 * (i - 1)) % NumSwitches) : i \in 1..NumProbes}

IdentReplies == {"LISY1", "LISY80", "LISY35"}
CountReplies == {0, MaxCount}
SwitchReplies == {0, 1, 2}
\* 127 no change, 5 = switch 5 open, 133 = switch 5 closed,
\* 137 = number 9 closed (not an address of the matrix)
StatusBytes == {NoChange, 5, 133, 137}

VARIABLES
    writer,               \* self._reader / self._writer: "none", "open", "closed"
    rxbuf,                \* buffered in the stream reader: <<>> or <<reply, command answered>>
    devPending,           \* command delivered to the board and not yet answered
    initPc,               \* position of initialize()
    initError,            \* exception initialize() ended with
    swIdx,                \* row-major position of the bulk read loop
    system_type,          \* self._system_type
    number_of_lamps,      \* self._number_of_lamps
    number_of_solenoids,  \* self._number_of_solenoids
    number_of_displays,   \* self._number_of_displays
    inputs,               \* self._inputs
    poll_task,            \* self._poll_task and the state of that task
    cancelRequested,      \* Task.cancel() was called on the poll task
    doneResult,           \* what the _done callback did with the task's result
    switch_controller,    \* last state per number given to process_switch_by_num
    emitted,              \* events given to process_switch_by_num in the last step
    out,                  \* commands handed to self._writer.write in the last step
    stopCalls,            \* sub-steps performed by the last stop() call
    drivers,              \* the LisyDriver objects: number and _pulse_ms
    pulse_time,           \* per solenoid: duration of the last "set pulse time" written
    call                  \* the host's call of the last step and how it ended

vars == <<writer, rxbuf, devPending, initPc, initError, swIdx, system_type,
          number_of_lamps, number_of_solenoids, number_of_displays, inputs,
          poll_task, cancelRequested, doneResult, switch_controller, emitted,
          out, stopCalls, drivers, pulse_time, call>>

(* ------------------------------ helpers -------------------------------- *)

RECURSIVE Str(_)
\* str(number): the decimal digits of a non-negative int
Str(n) == IF n < 10 THEN <<n>> ELSE Str(n \div 10) \o <<n % 10>>

\* d[key] = value on a dict
DictSet(d, key, value) ==
    [k \in (DOMAIN d) \cup {key} |-> IF k = key THEN value ELSE d[k]]

\* commands that the board answers
ReplyExpected == {"GeneralReset", "InfoGetConnectedLisyHardware", "InfoGetNumberOfLamps",
                  "InfoGetNumberOfSolenoids", "InfoGetNumberOfDisplays",
                  "SwitchesGetStatusOfSwitch", "SwitchesGetChangedSwitches"}

\* self._writer.write(data) on a stream writer whose transport is w: a closed
\* transport drops the data
WriterWrite(w, actor, cmd, payload) ==
    [actor |-> actor, cmd |-> cmd, payload |-> payload, delivered |-> (w = "open")]

\* send_byte(cmd, byte)
send_byte(w, actor, cmd, payload) == WriterWrite(w, actor, cmd, payload)

\* the board's reply queue after the writes ws
Deliver(ws) ==
    LET last == ws[Len(ws)]
    IN IF Len(ws) > 0 /\ last.delivered /\ last.cmd \in ReplyExpected
       THEN <<last.cmd, last.payload>> ELSE devPending

\* read_byte(): ord of the one byte read
read_byte(buf) == buf[1]

\* read_string(): the data up to the terminator, terminator removed
read_string(buf) == SubSeq(buf[1], 1, Len(buf[1]) - 1)

TypeOK ==
    /\ writer \in {"none", "open", "closed"}
    /\ initPc \in {"start", "reset", "ident", "lamps", "solenoids", "displays",
                   "switch", "running", "failed"}
    /\ swIdx \in 0..NumSwitches
    /\ poll_task \in {"none", "created", "read", "sleep", "cancelled", "error"}
    /\ cancelRequested \in BOOLEAN

Init ==
    /\ writer = "none"
    /\ rxbuf = <<>>
    /\ devPending = None
    /\ initPc = "start"
    /\ initError = None
    /\ swIdx = 0
    /\ system_type = NoInt
    /\ number_of_lamps = NoInt
    /\ number_of_solenoids = NoInt
    /\ number_of_displays = NoInt
    /\ inputs = <<>>
    /\ poll_task = "none"
    /\ cancelRequested = FALSE
    /\ doneResult = None
    /\ switch_controller = <<>>
    /\ emitted = <<>>
    /\ out = <<>>
    /\ stopCalls = <<>>
    /\ drivers = <<>>
    /\ pulse_time = <<>>
    /\ call = NoCall

(* ------------------------------ the board ------------------------------ *)

\* values the board may answer a command with
Replies(cmd) ==
    CASE cmd[1] = "GeneralReset" -> {0, 1}
      [] cmd[1] = "InfoGetConnectedLisyHardware" -> {<<r, 0>> : r \in IdentReplies}
      [] cmd[1] \in {"InfoGetNumberOfLamps", "InfoGetNumberOfSolenoids",
                     "InfoGetNumberOfDisplays"} -> CountReplies
      [] cmd[1] = "SwitchesGetStatusOfSwitch" ->
            IF cmd[2][1] \in ProbeAddrs THEN SwitchReplies ELSE {0}
      [] cmd[1] = "SwitchesGetChangedSwitches" -> StatusBytes

\* answers of a board that resets, is a LISY1, has MaxCount of everything, and
\* whose switches are all open when the platform starts
HealthyReplies(cmd) ==
    CASE cmd[1] = "GeneralReset" -> {0}
      [] cmd[1] = "InfoGetConnectedLisyHardware" -> {<<"LISY1", 0>>}
      [] cmd[1] \in {"InfoGetNumberOfLamps", "InfoGetNumberOfSolenoids",
                     "InfoGetNumberOfDisplays"} -> {MaxCount}
      [] cmd[1] = "SwitchesGetStatusOfSwitch" -> {0}
      [] cmd[1] = "SwitchesGetChangedSwitches" -> {NoChange, 133}

\* the board answers the command it has received; the answer is buffered in
\* the stream reader
DeviceAnswers(answers) ==
    /\ writer = "open"
    /\ \E r \in answers : rxbuf' = <<r, devPending>>
    /\ devPending' = None
    /\ emitted' = <<>>
    /\ out' = <<>>
    /\ call' = NoCall
    /\ UNCHANGED <<drivers, pulse_time, writer, initPc, initError, swIdx, system_type, number_of_lamps,
                   number_of_solenoids, number_of_displays, inputs, poll_task,
                   cancelRequested, doneResult, switch_controller, stopCalls>>

DeviceReply == devPending # None /\ DeviceAnswers(Replies(devPending))

HealthyReply == devPending # None /\ DeviceAnswers(HealthyReplies(devPending))

(* ----------------------------- initialize ------------------------------ *)

\* initialize() is suspended in a read
InitReading == initPc \in {"reset", "ident", "lamps", "solenoids", "displays", "switch"}

\* the part of a segment of initialize() that writes the next command and
\* suspends in the read of its reply
InitSend(w, cmd, payload, nextPc) ==
    /\ out' = <<send_byte(w, "init", cmd, payload)>>
    /\ devPending' = Deliver(out')
    /\ initPc' = nextPc
    /\ emitted' = <<>>

\* a raise inside initialize()
InitRaise(err) ==
    /\ initPc' = "failed"
    /\ initError' = err
    /\ out' = <<>>
    /\ emitted' = <<>>
    /\ UNCHANGED devPending

\* lines 132-136: the connection is made, reset is sent
InitConnect ==
    /\ initPc = "start"
    /\ writer' = "open"
    /\ rxbuf' = <<>>
    /\ InitSend(writer', "GeneralReset", <<>>, "reset")
    /\ call' = NoCall
    /\ UNCHANGED <<drivers, pulse_time, initError, swIdx, system_type, number_of_lamps, number_of_solenoids,
                   number_of_displays, inputs, poll_task, cancelRequested, doneResult,
                   switch_controller, stopCalls>>

\* lines 136-142: the reset reply
InitReset ==
    /\ initPc = "reset"
    /\ rxbuf # <<>>
    /\ rxbuf' = <<>>
    /\ LET return_code == read_byte(rxbuf)
       IN IF return_code # 0
          THEN InitRaise("AssertionError")
          ELSE /\ InitSend(writer, "InfoGetConnectedLisyHardware", <<>>, "ident")
               /\ UNCHANGED initError
    /\ call' = NoCall
    /\ UNCHANGED <<drivers, pulse_time, writer, swIdx, system_type, number_of_lamps, number_of_solenoids,
                   number_of_displays, inputs, poll_task, cancelRequested, doneResult,
                   switch_controller, stopCalls>>

\* lines 142-153: the identify reply
InitIdent ==
    /\ initPc = "ident"
    /\ rxbuf # <<>>
    /\ rxbuf' = <<>>
    /\ LET type_str == read_string(rxbuf)
       IN IF type_str = <<"LISY1">>
          THEN /\ system_type' = 1
               /\ InitSend(writer, "InfoGetNumberOfLamps", <<>>, "lamps")
               /\ UNCHANGED initError
          ELSE IF type_str = <<"LISY80">>
          THEN /\ system_type' = 80
               /\ InitSend(writer, "InfoGetNumberOfLamps", <<>>, "lamps")
               /\ UNCHANGED initError
          ELSE /\ InitRaise("AssertionError")
               /\ UNCHANGED system_type
    /\ call' = NoCall
    /\ UNCHANGED <<drivers, pulse_time, writer, swIdx, number_of_lamps, number_of_solenoids,
                   number_of_displays, inputs, poll_task, cancelRequested, doneResult,
                   switch_controller, stopCalls>>

\* lines 153-157: the lamp count
InitLamps ==
    /\ initPc = "lamps"
    /\ rxbuf # <<>>
    /\ rxbuf' = <<>>
    /\ number_of_lamps' = read_byte(rxbuf)
    /\ InitSend(writer, "InfoGetNumberOfSolenoids", <<>>, "solenoids")
    /\ call' = NoCall
    /\ UNCHANGED <<drivers, pulse_time, writer, initError, swIdx, system_type, number_of_solenoids,
                   number_of_displays, inputs, poll_task, cancelRequested, doneResult,
                   switch_controller, stopCalls>>

\* lines 157-161: the solenoid count
InitSolenoids ==
    /\ initPc = "solenoids"
    /\ rxbuf # <<>>
    /\ rxbuf' = <<>>
    /\ number_of_solenoids' = read_byte(rxbuf)
    /\ InitSend(writer, "InfoGetNumberOfDisplays", <<>>, "displays")
    /\ call' = NoCall
    /\ UNCHANGED <<drivers, pulse_time, writer, initError, swIdx, system_type, number_of_lamps,
                   number_of_displays, inputs, poll_task, cancelRequested, doneResult,
                   switch_controller, stopCalls>>

\* lines 161-168: the display count, then the first switch query
InitDisplays ==
    /\ initPc = "displays"
    /\ rxbuf # <<>>
    /\ rxbuf' = <<>>
    /\ number_of_displays' = read_byte(rxbuf)
    /\ InitSend(writer, "SwitchesGetStatusOfSwitch", <<SwitchNumber(0)>>, "switch")
    /\ call' = NoCall
    /\ UNCHANGED <<drivers, pulse_time, writer, initError, swIdx, system_type, number_of_lamps,
                   number_of_solenoids, inputs, poll_task, cancelRequested, doneResult,
                   switch_controller, stopCalls>>

\* the comparison of line 172 against the wrong value
StoreSwitch_Inverted(d, number, state) == DictSet(d, Str(number), state = 0)

\* self._inputs[str(number)] = state == 1
StoreSwitch(d, number, state) == DictSet(d, Str(number), state = 1)

\* the check of line 169 with the bound off by one
InvalidSwitchState_Lax(state) == state > 2

\* line 169: the reply is not a switch state
InvalidSwitchState(state) == state > 1

\* lines 168-175: one switch reply of the bulk read; after the last one the
\* poll task is created
InitSwitch ==
    /\ initPc = "switch"
    /\ rxbuf # <<>>
    /\ rxbuf' = <<>>
    /\ LET number == SwitchNumber(swIdx)
           state == read_byte(rxbuf)
       IN IF InvalidSwitchState(state)
          THEN /\ InitRaise("AssertionError")
               /\ UNCHANGED <<inputs, swIdx, poll_task>>
          ELSE /\ inputs' = StoreSwitch(inputs, number, state)
               /\ swIdx' = swIdx + 1
               /\ UNCHANGED initError
               /\ IF swIdx + 1 < NumSwitches
                  THEN /\ InitSend(writer, "SwitchesGetStatusOfSwitch",
                                   <<SwitchNumber(swIdx + 1)>>, "switch")
                       /\ UNCHANGED poll_task
                  ELSE /\ poll_task' = "created"
                       /\ initPc' = "running"
                       /\ out' = <<>>
                       /\ emitted' = <<>>
                       /\ UNCHANGED devPending
    /\ call' = NoCall
    /\ UNCHANGED <<drivers, pulse_time, writer, system_type, number_of_lamps, number_of_solenoids,
                   number_of_displays, cancelRequested, doneResult,
                   switch_controller, stopCalls>>

\* a read of initialize() on a closed connection with nothing buffered
InitEOF ==
    /\ InitReading
    /\ writer = "closed"
    /\ rxbuf = <<>>
    /\ InitRaise("IncompleteReadError")
    /\ call' = NoCall
    /\ UNCHANGED <<drivers, pulse_time, writer, rxbuf, swIdx, system_type, number_of_lamps,
                   number_of_solenoids, number_of_displays, inputs, poll_task,
                   cancelRequested, doneResult, switch_controller, stopCalls>>

(* -------------------------------- stop --------------------------------- *)

\* stop(): cancel the poll task if there is one, then close the writer if
\* there is a reader
Cancel(task) == task # "none"
Close(w) == w # "none"

\* the calls stop() makes, in the order of lines 179-183
StopSteps(task, w) ==
    (IF Cancel(task) THEN <<"cancel">> ELSE <<>>) \o (IF Close(w) THEN <<"close">> ELSE <<>>)

Stop ==
    /\ cancelRequested' = (cancelRequested \/ Cancel(poll_task))
    /\ writer' = IF Close(writer) THEN "closed" ELSE writer
    /\ stopCalls' = StopSteps(poll_task, writer)
    /\ out' = <<>>
    /\ emitted' = <<>>
    /\ call' = NoCall
    /\ UNCHANGED <<drivers, pulse_time, rxbuf, devPending, initPc, initError, swIdx, system_type,
                   number_of_lamps, number_of_solenoids, number_of_displays, inputs,
                   poll_task, doneResult, switch_controller>>

(* -------------------------------- _poll -------------------------------- *)

\* a cycle that goes to the read without sending the query
PollSend_NoQuery(w) ==
    /\ out' = <<>>
    /\ devPending' = devPending
    /\ poll_task' = "read"

\* line 195: the query of a cycle, sent before the read of line 196
PollSend(w) ==
    /\ out' = <<send_byte(w, "poll", "SwitchesGetChangedSwitches", <<>>)>>
    /\ devPending' = Deliver(out')
    /\ poll_task' = "read"

\* the task's first step: line 195, up to the read of line 196
PollStart ==
    /\ poll_task = "created"
    /\ ~cancelRequested
    /\ PollSend(writer)
    /\ emitted' = <<>>
    /\ call' = NoCall
    /\ UNCHANGED <<drivers, pulse_time, writer, rxbuf, initPc, initError, swIdx, system_type,
                   number_of_lamps, number_of_solenoids, number_of_displays, inputs,
                   cancelRequested, doneResult, switch_controller, stopCalls>>

\* the switch number without the mask of bits 0-6
SwitchNum_NoMask(status) == status

\* bit 7 is the state, bits 0-6 are the switch number
SwitchState(status) == IF (status \div 128) % 2 = 1 THEN 1 ELSE 0
SwitchNum(status) == status % 128

\* lines 196-210 and 195: a status byte is read; no change: sleep; a change:
\* tell the switch controller, store it, send the next query
PollRead ==
    /\ poll_task = "read"
    /\ ~cancelRequested
    /\ rxbuf # <<>>
    /\ rxbuf' = <<>>
    /\ LET status == read_byte(rxbuf)
       IN IF status = NoChange
          THEN /\ poll_task' = "sleep"
               /\ out' = <<>>
               /\ emitted' = <<>>
               /\ UNCHANGED <<devPending, inputs, switch_controller>>
          ELSE LET switch_state == SwitchState(status)
                   switch_num == SwitchNum(status)
               IN /\ emitted' = <<<<Str(switch_num), switch_state, "lisy">>>>
                  /\ switch_controller' =
                         DictSet(switch_controller, Str(switch_num), switch_state)
                  /\ inputs' = DictSet(inputs, Str(switch_num), switch_state = 1)
                  /\ PollSend(writer)
    /\ call' = NoCall
    /\ UNCHANGED <<drivers, pulse_time, writer, initPc, initError, swIdx, system_type, number_of_lamps,
                   number_of_solenoids, number_of_displays, cancelRequested,
                   doneResult, stopCalls>>

\* the sleep of line 199 is over: next cycle
PollWake ==
    /\ poll_task = "sleep"
    /\ ~cancelRequested
    /\ PollSend(writer)
    /\ emitted' = <<>>
    /\ call' = NoCall
    /\ UNCHANGED <<drivers, pulse_time, writer, rxbuf, initPc, initError, swIdx, system_type,
                   number_of_lamps, number_of_solenoids, number_of_displays, inputs,
                   cancelRequested, doneResult, switch_controller, stopCalls>>

\* _done without the except clause
Done_Reraise(exc) == exc

\* _done(future): a CancelledError is swallowed, any other exception of the
\* task is raised again in the callback
Done(exc) == IF exc = "CancelledError" THEN "pass" ELSE exc

\* the read of line 196 on a closed connection with nothing buffered
PollEOF ==
    /\ poll_task = "read"
    /\ ~cancelRequested
    /\ writer = "closed"
    /\ rxbuf = <<>>
    /\ poll_task' = "error"
    /\ doneResult' = Done("IncompleteReadError")
    /\ out' = <<>>
    /\ emitted' = <<>>
    /\ call' = NoCall
    /\ UNCHANGED <<drivers, pulse_time, writer, rxbuf, devPending, initPc, initError, swIdx, system_type,
                   number_of_lamps, number_of_solenoids, number_of_displays, inputs,
                   cancelRequested, switch_controller, stopCalls>>

\* the cancelled task gets CancelledError at its suspension point
PollCancelled ==
    /\ poll_task \in {"created", "read", "sleep"}
    /\ cancelRequested
    /\ poll_task' = "cancelled"
    /\ doneResult' = Done("CancelledError")
    /\ out' = <<>>
    /\ emitted' = <<>>
    /\ call' = NoCall
    /\ UNCHANGED <<drivers, pulse_time, writer, rxbuf, devPending, initPc, initError, swIdx, system_type,
                   number_of_lamps, number_of_solenoids, number_of_displays, inputs,
                   cancelRequested, switch_controller, stopCalls>>

(* --------------------------- the host's calls -------------------------- *)

\* the framework configures and uses devices once initialize() has returned;
\* an exception of initialize() ends the start of the machine
DevicesReady == initPc = "running"

\* a call of the host that reads what the stream reader has buffered
HostFrame_Reads ==
    /\ emitted' = <<>>
    /\ rxbuf' = <<>>
    /\ UNCHANGED <<writer, devPending, initPc, initError, swIdx, system_type,
                   number_of_lamps, number_of_solenoids, number_of_displays, inputs,
                   poll_task, cancelRequested, doneResult, switch_controller,
                   stopCalls>>

\* a call of the host that touches neither the connection nor the tasks
HostFrame ==
    /\ emitted' = <<>>
    /\ UNCHANGED <<writer, rxbuf, devPending, initPc, initError, swIdx, system_type,
                   number_of_lamps, number_of_solenoids, number_of_displays, inputs,
                   poll_task, cancelRequested, doneResult, switch_controller,
                   stopCalls>>

Result(op, arg, result) == [op |-> op, arg |-> arg, result |-> result]

\* bytes(values) raises ValueError unless every value is in range(256)
IsBytes(values) == \A i \in 1..Len(values) : values[i] \in 0..255

\* a rule method that returns instead of raising
HwRule_Accepts(op) ==
    /\ call' = Result(op, <<>>, "ok")
    /\ out' = <<>>
    /\ UNCHANGED <<drivers, pulse_time>>
    /\ HostFrame

\* lines 212-231: the five hardware rule methods raise
HwRule(op) ==
    /\ call' = Result(op, <<>>, "AssertionError")
    /\ out' = <<>>
    /\ UNCHANGED <<drivers, pulse_time>>
    /\ HostFrame

set_pulse_on_hit_and_enable_and_release_rule ==
    HwRule("set_pulse_on_hit_and_enable_and_release_rule")

set_pulse_on_hit_and_enable_and_release_and_disable_rule ==
    HwRule("set_pulse_on_hit_and_enable_and_release_and_disable_rule")

set_pulse_on_hit_and_release_rule == HwRule("set_pulse_on_hit_and_release_rule")

set_pulse_on_hit_rule == HwRule("set_pulse_on_hit_rule")

clear_hw_rule == HwRule("clear_hw_rule")

\* a > b and a >= b of Python where b may be None
Gt(a, b) == IF b = NoInt THEN "TypeError" ELSE IF a > b THEN "True" ELSE "False"
Ge(a, b) == IF b = NoInt THEN "TypeError" ELSE IF a >= b THEN "True" ELSE "False"

\* the chained comparison  lo < n <cmp> count : the second comparison is done
\* only when the first one holds
Chained(lo, n, cmp) == IF lo < n THEN cmp ELSE "False"

\* if <comparison>: raise AssertionError(...)
Outcome(cond) ==
    IF cond = "TypeError" THEN "TypeError"
    ELSE IF cond = "True" THEN "AssertionError" ELSE "ok"

\* lines 233-246
LightCheck(n, stype, lamps) ==
    IF stype = 80
    THEN Outcome(Chained(0, n, Ge(n, lamps)))
    ELSE Outcome(Chained(1, n, Gt(n, lamps)))

configure_light(n) ==
    /\ DevicesReady
    /\ call' = Result("configure_light", <<n>>, LightCheck(n, system_type, number_of_lamps))
    /\ out' = <<>>
    /\ UNCHANGED <<drivers, pulse_time>>
    /\ HostFrame

\* lines 271-277
DisplayCheck(n, displays) == Outcome(Chained(0, n, Ge(n, displays)))

configure_segment_display(n) ==
    /\ DevicesReady
    /\ call' = Result("configure_segment_display", <<n>>,
                      DisplayCheck(n, number_of_displays))
    /\ out' = <<>>
    /\ UNCHANGED <<drivers, pulse_time>>
    /\ HostFrame

\* indexes the host tries
Indexes == (0 - 1)..MaxIndex

\* lines 256-261: (int(number) % 10) > 7 or 0 < int(number) > 77
SwitchCheck(n) ==
    IF (n % 10) > 7 THEN "AssertionError"
    ELSE Outcome(Chained(0, n, IF n > 77 THEN "True" ELSE "False"))

configure_switch(n) ==
    /\ DevicesReady
    /\ call' = Result("configure_switch", <<n>>, SwitchCheck(n))
    /\ out' = <<>>
    /\ UNCHANGED <<drivers, pulse_time>>
    /\ HostFrame

\* switch numbers the host tries
SwitchTries == {0 - 3, 0 - 1, 0, 7, 8, 77, 78, 80}

(* ---------------------------- device handles --------------------------- *)

Handles == 1..NumHandles
Solenoids == 1..MaxSolenoid
Durations == {10, 1000, MaxPulse}

\* lines 267-269 and 31-35: a new LisyDriver
configure_driver(n) ==
    /\ DevicesReady
    /\ Len(drivers) < NumHandles
    /\ drivers' = Append(drivers, [number |-> n, pulse_ms |-> 0 - 1])
    /\ call' = Result("configure_driver", <<n>>, "ok")
    /\ out' = <<>>
    /\ UNCHANGED pulse_time
    /\ HostFrame

\* the two duration bytes the other way round
PulseTimePayload_LowFirst(number, pulse_ms) == <<number, pulse_ms % 256, pulse_ms \div 256>>

\* payload of SolenoidsSetSolenoidPulseTime
PulseTimePayload(number, pulse_ms) == <<number, pulse_ms \div 256, pulse_ms % 256>>

\* lines 37-45: the new _pulse_ms, the commands written and the exception
ConfigurePulseMs(drv, pulse_ms, w) ==
    IF pulse_ms # drv.pulse_ms
    THEN IF IsBytes(PulseTimePayload(drv.number, pulse_ms))
         THEN [pulse_ms |-> pulse_ms,
               writes |-> <<send_byte(w, "host", "SolenoidsSetSolenoidPulseTime",
                                      PulseTimePayload(drv.number, pulse_ms))>>,
               exc |-> None]
         ELSE [pulse_ms |-> pulse_ms, writes |-> <<>>, exc |-> "ValueError"]
    ELSE [pulse_ms |-> drv.pulse_ms, writes |-> <<>>, exc |-> None]

\* the pulse times after the "set pulse time" commands among the writes ws
SetPulseTimes(times, ws) ==
    IF ws = <<>> THEN times
    ELSE DictSet(times, ws[1].payload[1], ws[1].payload[2] * 256 + ws[1].payload[3])

\* pulse() and enable(): configure the pulse time, then write the command
PulseOrEnable(op, cmd, h, pulse_ms) ==
    LET c == ConfigurePulseMs(drivers[h], pulse_ms, writer)
    IN /\ drivers' = [drivers EXCEPT ![h].pulse_ms = c.pulse_ms]
       /\ pulse_time' = SetPulseTimes(pulse_time, c.writes)
       /\ IF c.exc # None
          THEN /\ out' = c.writes
               /\ call' = Result(op, <<h, pulse_ms>>, c.exc)
          ELSE /\ out' = Append(c.writes,
                                send_byte(writer, "host", cmd, <<drivers[h].number>>))
               /\ call' = Result(op, <<h, pulse_ms>>, "ok")

\* lines 47-50
pulse(h, pulse_ms) ==
    /\ DevicesReady
    /\ h \in DOMAIN drivers
    /\ PulseOrEnable("pulse", "SolenoidsPulseSolenioid", h, pulse_ms)
    /\ HostFrame

\* lines 52-56
enable(h, pulse_ms) ==
    /\ DevicesReady
    /\ h \in DOMAIN drivers
    /\ PulseOrEnable("enable", "SolenoidsSetSolenoidToOn", h, pulse_ms)
    /\ HostFrame

\* lines 58-60
disable(h) ==
    /\ DevicesReady
    /\ h \in DOMAIN drivers
    /\ out' = <<send_byte(writer, "host", "SolenoidsSetSolenoidToOff",
                          <<drivers[h].number>>)>>
    /\ call' = Result("disable", <<h>>, "ok")
    /\ UNCHANGED <<drivers, pulse_time>>
    /\ HostFrame

\* lines 77-82, on a LisyLight that configure_light returns
set_brightness(n, brightness) ==
    /\ DevicesReady
    /\ n >= 0
    /\ LightCheck(n, system_type, number_of_lamps) = "ok"
    /\ out' = <<send_byte(writer, "host",
                          IF brightness > 0 THEN "LampsSetLampOn" ELSE "LampsSetLampOff",
                          <<n>>)>>
    /\ call' = Result("set_brightness", <<n, brightness>>, "ok")
    /\ UNCHANGED <<drivers, pulse_time>>
    /\ HostFrame

\* send_string(cmd, string): the command, the text, a zero
send_string(w, actor, cmd, string) == WriterWrite(w, actor, cmd, <<string, 0>>)

\* LisyDefines.DisplaysSetDisplay0To + number
DisplayCmd(n) == <<"DisplaysSetDisplay0To", n>>

\* lines 94-96, on a LisyDisplay that configure_segment_display returns
set_text(n, text) ==
    /\ DevicesReady
    /\ n >= 0
    /\ DisplayCheck(n, number_of_displays) = "ok"
    /\ out' = <<send_string(writer, "host", DisplayCmd(n), text)>>
    /\ call' = Result("set_text", <<n, text>>, "ok")
    /\ UNCHANGED <<drivers, pulse_time>>
    /\ HostFrame

(* --------------------------- specifications ---------------------------- *)

\* the connection, initialize(), stop() and the poll task
Platform ==
    \/ InitConnect
    \/ InitReset
    \/ InitIdent
    \/ InitLamps
    \/ InitSolenoids
    \/ InitDisplays
    \/ InitSwitch
    \/ InitEOF
    \/ Stop
    \/ PollStart
    \/ PollRead
    \/ PollWake
    \/ PollEOF
    \/ PollCancelled

\* any board; the host configures lights and displays and asks for rules
Next ==
    \/ DeviceReply
    \/ Platform
    \/ set_pulse_on_hit_and_enable_and_release_rule
    \/ set_pulse_on_hit_and_enable_and_release_and_disable_rule
    \/ set_pulse_on_hit_and_release_rule
    \/ set_pulse_on_hit_rule
    \/ clear_hw_rule
    \/ \E n \in Indexes : configure_light(n)
    \/ \E n \in Indexes : configure_segment_display(n)
    \/ \E n \in SwitchTries : configure_switch(n)

Spec == Init /\ [][Next]_vars

\* a healthy board; the host uses driver, light and display handles
NextHost ==
    \/ HealthyReply
    \/ Platform
    \/ \E n \in Solenoids : configure_driver(n)
    \/ \E h \in Handles, d \in Durations : pulse(h, d)
    \/ \E h \in Handles, d \in Durations : enable(h, d)
    \/ \E h \in Handles : disable(h)
    \/ \E n \in 0..MaxIndex, b \in {0, 1} : set_brightness(n, b)
    \/ \E n \in 0..MaxIndex : set_text(n, "AB")

SpecHost == Init /\ [][NextHost]_vars

\* a healthy board; the host uses driver handles and asks for hardware rules
NextRules ==
    \/ HealthyReply
    \/ Platform
    \/ \E n \in Solenoids : configure_driver(n)
    \/ \E h \in Handles, d \in Durations : pulse(h, d)
    \/ set_pulse_on_hit_and_enable_and_release_rule
    \/ set_pulse_on_hit_and_enable_and_release_and_disable_rule
    \/ set_pulse_on_hit_and_release_rule
    \/ set_pulse_on_hit_rule
    \/ clear_hw_rule

SpecRules == Init /\ [][NextRules]_vars

\* any board and the platform alone; every task that can run does run in the
\* end (the event loop schedules each ready task) and the board answers; each
\* of these steps changes the variable its fairness condition names
NextLive ==
    \/ DeviceReply
    \/ Platform

SpecLive ==
    /\ Init
    /\ [][NextLive]_vars
    /\ WF_rxbuf(DeviceReply)
    /\ WF_poll_task(PollStart)
    /\ WF_rxbuf(PollRead)
    /\ WF_poll_task(PollWake)

\* distance between the sampled pulse durations
EncStride == 257

\* sampled durations of 0..65535: the multiples of the stride, their
\* predecessors, the byte borders and the largest one
EncDurations ==
    {k * EncStride : k \in 0..((MaxPulse - 1) \div EncStride)}
        \cup {k * EncStride - 1 : k \in 1..((MaxPulse - 1) \div EncStride)}
        \cup {255, 256, 1000, MaxPulse - 1}

\* the platform after a handshake with a healthy board, the poll task waiting
\* for its first reply, and one new driver handle
InitEncode ==
    /\ writer = "open"
    /\ rxbuf = <<>>
    /\ devPending = <<"SwitchesGetChangedSwitches", <<>>>>
    /\ initPc = "running"
    /\ initError = None
    /\ swIdx = NumSwitches
    /\ system_type = 1
    /\ number_of_lamps = MaxCount
    /\ number_of_solenoids = MaxCount
    /\ number_of_displays = MaxCount
    /\ inputs = [k \in {Str(SwitchNumber(i)) : i \in 0..(NumSwitches - 1)} |-> FALSE]
    /\ poll_task = "read"
    /\ cancelRequested = FALSE
    /\ doneResult = None
    /\ switch_controller = <<>>
    /\ emitted = <<>>
    /\ out = <<>>
    /\ stopCalls = <<>>
    /\ \E n \in Solenoids :
          /\ drivers = <<[number |-> n, pulse_ms |-> 0 - 1]>>
          /\ call = Result("configure_driver", <<n>>, "ok")
    /\ pulse_time = <<>>

\* the host pulses the one driver with the sampled durations
NextEncode == \E d \in EncDurations : pulse(1, d)

SpecEncode == InitEncode /\ [][NextEncode]_vars

(* ------------------------------- claims -------------------------------- *)

PulseOps == {"pulse", "enable"}
HandleOps == {"pulse", "enable", "disable", "set_brightness", "set_text"}
OpCmd(op) == IF op = "pulse" THEN "SolenoidsPulseSolenioid" ELSE "SolenoidsSetSolenoidToOn"
Query == "SwitchesGetChangedSwitches"

\* C1: in every pulse or enable call on a driver handle, one "set pulse time"
\* command is written, immediately before the pulse / set-to-on command of
\* the call, exactly when the requested duration differs from the handle's
\* stored duration; the stored duration then is the requested one; a call
\* that repeats the stored duration writes no "set pulse time" command.
C1_PulseTimeWrittenExactlyOnChange ==
    [][call'.op \in PulseOps =>
         LET h == call'.arg[1]
             d == call'.arg[2]
             stored == drivers[h].pulse_ms
             setCmds == {i \in 1..Len(out') :
                            out'[i].cmd = "SolenoidsSetSolenoidPulseTime"}
         IN /\ drivers'[h].pulse_ms = d
            /\ (d # stored) => /\ Len(out') = 2
                               /\ setCmds = {1}
                               /\ out'[2].cmd = OpCmd(call'.op)
            /\ (d = stored) => setCmds = {}]_vars

\* initialize() takes the reply of the command it is waiting for
InitStep == InitReading /\ rxbuf # <<>> /\ rxbuf' = <<>>

\* the buffered reply is one the handshake must not accept
ReplyIsBad ==
    CASE initPc = "reset" -> rxbuf[1] # 0
      [] initPc = "ident" -> rxbuf[1][1] \notin {"LISY1", "LISY80"}
      [] initPc = "switch" -> rxbuf[1] \notin {0, 1}
      [] OTHER -> FALSE

\* C2: the handshake goes on after a reply exactly when the reply is
\* acceptable (reset reply 0, a recognized identifier, switch reply 0 or 1),
\* and reaches RUNNING, with the poll task created, exactly with the last
\* acceptable switch reply; at the first other reply initialize() fails with
\* an error, writes no further command and never starts the poll loop.
C2_HandshakeRunningIffRepliesGood ==
    [][/\ InitStep =>
            /\ ReplyIsBad <=> (initPc' = "failed")
            /\ ReplyIsBad => /\ initError' = "AssertionError"
                             /\ out' = <<>>
                             /\ poll_task' = "none"
            /\ (initPc' = "running") <=>
                   (~ReplyIsBad /\ initPc = "switch" /\ swIdx = NumSwitches - 1)
            /\ (initPc' = "running") => poll_task' = "created"
       /\ (initPc' = "running" /\ initPc # "running") => InitStep
       /\ (initPc = "failed") =>
            /\ initPc' = "failed"
            /\ poll_task' = "none"
            /\ \A i \in 1..Len(out') : out'[i].actor # "init"
       /\ (poll_task' # "none") => initPc' = "running"]_vars

\* the handshake failed on a switch reply in the middle of the bulk read
C2_Witness ==
    /\ initPc = "failed"
    /\ initError = "AssertionError"
    /\ swIdx = 5
    /\ poll_task = "none"

\* C3: while the poll loop is between the send of "get changed switches" and
\* the read of its reply, no other actor writes a command.
C3_NoWriteInsidePollPair ==
    [][(poll_task = "read" /\ ~cancelRequested /\ writer = "open") =>
          \A i \in 1..Len(out') : out'[i].actor = "poll"]_vars

\* the poll loop takes a status byte
PollStep == poll_task = "read" /\ rxbuf # <<>> /\ rxbuf' = <<>>

\* C4: a poll cycle that reads status byte b emits nothing, leaves the cache
\* alone and idles when b = 127, and then sends a new query; for any other b
\* it gives exactly one event (b mod 128, b div 128, this platform) to the
\* switch controller and stores that state for that address, leaving the
\* other entries alone; nothing else emits events or, once running, writes
\* the cache, so every address that had an event holds the state of its most
\* recent event and every other address its bulk-read value.
C4_PollCycleEventAndCache ==
    [][/\ PollStep =>
            LET b == rxbuf[1]
                addr == Str(b % 128)
                st == b \div 128
            IN IF b = 127
               THEN /\ emitted' = <<>>
                    /\ inputs' = inputs
                    /\ switch_controller' = switch_controller
                    /\ poll_task' = "sleep"
                    /\ out' = <<>>
               ELSE /\ emitted' = <<<<addr, st, "lisy">>>>
                    /\ addr \in DOMAIN inputs'
                    /\ inputs'[addr] = (st = 1)
                    /\ \A k \in (DOMAIN inputs') \ {addr} :
                          k \in DOMAIN inputs /\ inputs'[k] = inputs[k]
       /\ ~PollStep => /\ emitted' = <<>>
                       /\ (initPc = "running") => inputs' = inputs
       /\ (poll_task = "sleep" /\ poll_task' # "sleep") =>
            \/ poll_task' = "cancelled"
            \/ /\ poll_task' = "read"
               /\ Len(out') = 1 /\ out'[1].actor = "poll" /\ out'[1].cmd = Query
       /\ \A k \in DOMAIN switch_controller' :
            k \in DOMAIN inputs' /\ inputs'[k] = (switch_controller'[k] = 1)]_vars

\* status byte 133 was read: event ("5", 1) and the cache holds "5" closed
C4_Witness ==
    /\ emitted = <<<<Str(5), 1, "lisy">>>>
    /\ Str(5) \in DOMAIN inputs
    /\ inputs[Str(5)] = TRUE
    /\ switch_controller[Str(5)] = 1

PollAlive == poll_task \in {"created", "read", "sleep"}

\* C5: stop() on a platform whose poll task is alive cancels the task and
\* then closes the connection; after that the poll task writes nothing, and
\* the only way its wait ends is the cancellation, which _done does not
\* raise again.
C5_StopCancelsPollCleanly ==
    [][/\ cancelRequested => \A i \in 1..Len(out') : out'[i].actor # "poll"
       /\ (cancelRequested /\ PollAlive /\ poll_task' # poll_task) =>
            /\ poll_task' = "cancelled"
            /\ doneResult' = "pass"
       /\ (PollAlive /\ writer = "open" /\ writer' = "closed") =>
            /\ cancelRequested'
            /\ stopCalls' = <<"cancel", "close">>]_vars

\* the poll task was cancelled by stop() and ended without an error
C5_Witness ==
    /\ poll_task = "cancelled"
    /\ doneResult = "pass"
    /\ writer = "closed"
    /\ stopCalls = <<"cancel", "close">>

\* C6: a device-handle command issued on the connection that stop() has
\* closed ends in an error and puts no byte on the transport.
C6_CommandAfterStopFails ==
    (call.op \in HandleOps /\ writer = "closed") =>
        /\ call.result # "ok"
        /\ \A i \in 1..Len(out) : ~out[i].delivered

\* C7: configure_segment_display(n) fails, writing nothing, for every
\* n >= the reported display count, and returns a handle only for
\* 0 <= n < display count.
C7_DisplayIndexChecked ==
    (call.op = "configure_segment_display") =>
        LET n == call.arg[1]
        IN /\ (n >= number_of_displays) => call.result # "ok"
           /\ (call.result = "ok") => (0 <= n /\ n < number_of_displays)
           /\ out = <<>>

\* C8: configure_light(n) succeeds iff 0 <= n < lamp count on a LISY80 and
\* iff 1 <= n <= lamp count on a LISY1, and writes nothing.
C8_LampIndexChecked ==
    (call.op = "configure_light") =>
        LET n == call.arg[1]
        IN /\ (call.result = "ok") <=>
                 IF system_type = 80
                 THEN 0 <= n /\ n < number_of_lamps
                 ELSE 1 <= n /\ n <= number_of_lamps
           /\ out = <<>>

\* C9: after a failed handshake the switch-state cache has no entry, the
\* hardware profile is not set and there is no poll task.
C9_FailedHandshakeKeepsNothing ==
    (initPc = "failed") =>
        /\ DOMAIN inputs = {}
        /\ system_type = NoInt
        /\ number_of_lamps = NoInt
        /\ number_of_solenoids = NoInt
        /\ number_of_displays = NoInt
        /\ poll_task = "none"

ValidKeys == {Str(r * 10 + c) : r \in 0..(Rows - 1), c \in 0..(Cols - 1)}

\* C10: every key of the switch-state cache is the address row*10+col of a
\* switch of the matrix, and every value is a boolean.
C10_CacheKeysValid ==
    \A k \in DOMAIN inputs : k \in ValidKeys /\ inputs[k] \in BOOLEAN

\* the keys of the switches the bulk read has stored before position k
StoredKeys(k) == {Str((i \div 8) * 10 + (i % 8)) : i \in 0..(k - 1)}

\* C11: each accepted switch reply of the bulk read is stored as the boolean
\* (reply = 1) under the address the answered query was sent for, leaving the
\* other entries alone, so that the cache holds the addresses read so far and,
\* when the handshake reaches RUNNING, exactly the 64 addresses row*10+col.
C11_BulkReadFillsCache ==
    [][/\ (InitStep /\ initPc = "switch" /\ ~ReplyIsBad) =>
            LET addr == rxbuf[2][2][1]
            IN /\ rxbuf[2][1] = "SwitchesGetStatusOfSwitch"
               /\ DOMAIN inputs' = (DOMAIN inputs) \cup {Str(addr)}
               /\ inputs'[Str(addr)] = (rxbuf[1] = 1)
               /\ \A k \in DOMAIN inputs : inputs'[k] = inputs[k]
       /\ (initPc' # "running") => DOMAIN inputs' = StoredKeys(swIdx')
       /\ (initPc' = "running" /\ initPc # "running") =>
            /\ DOMAIN inputs' = ValidKeys
            /\ Cardinality(DOMAIN inputs') = 64
            /\ \A k \in DOMAIN inputs' : inputs'[k] \in BOOLEAN]_vars

\* RUNNING was reached and the board had answered 1 for switch 5
C11_Witness ==
    /\ initPc = "running"
    /\ poll_task = "created"
    /\ Cardinality(DOMAIN inputs) = 64
    /\ inputs[Str(5)] = TRUE
    /\ inputs[Str(77)] = FALSE

\* the command that is number n (from 1) of the handshake
HandshakeCmd(n) ==
    IF n = 1 THEN <<"GeneralReset", <<>>>>
    ELSE IF n = 2 THEN <<"InfoGetConnectedLisyHardware", <<>>>>
    ELSE IF n = 3 THEN <<"InfoGetNumberOfLamps", <<>>>>
    ELSE IF n = 4 THEN <<"InfoGetNumberOfSolenoids", <<>>>>
    ELSE IF n = 5 THEN <<"InfoGetNumberOfDisplays", <<>>>>
    ELSE <<"SwitchesGetStatusOfSwitch", <<((n - 6) \div 8) * 10 + ((n - 6) % 8)>>>>

\* how many commands initialize() has written at position pc, k
HandshakeSent(pc, k) ==
    CASE pc = "start" -> 0
      [] pc = "reset" -> 1
      [] pc = "ident" -> 2
      [] pc = "lamps" -> 3
      [] pc = "solenoids" -> 4
      [] pc = "displays" -> 5
      [] pc = "switch" -> 6 + k
      [] pc = "running" -> 69

InitWrites(ws) == {i \in 1..Len(ws) : ws[i].actor = "init"}

\* C12: initialize() writes reset, identify, get-lamp-count,
\* get-solenoid-count, get-display-count and the 64 switch-status queries in
\* row-major order, one command per step; every command but the first is
\* written in the step that has read the one reply (a byte, or for identify a
\* zero-terminated string) of the command before it, and that reply answers
\* that command; the poll loop writes its first query only after the reply
\* of the last switch query has been read.
C12_HandshakeOrder ==
    [][/\ (InitWrites(out') # {}) =>
            /\ Len(out') = 1
            /\ HandshakeSent(initPc', swIdx') = HandshakeSent(initPc, swIdx) + 1
            /\ <<out'[1].cmd, out'[1].payload>> =
                   HandshakeCmd(HandshakeSent(initPc', swIdx'))
            /\ (initPc # "start") =>
                   /\ InitStep
                   /\ Len(rxbuf) = 2
                   /\ rxbuf[2] = HandshakeCmd(HandshakeSent(initPc, swIdx))
                   /\ (initPc = "ident") => rxbuf[1][Len(rxbuf[1])] = 0
       /\ (initPc' \notin {initPc, "failed"} \/ swIdx' # swIdx) =>
            \/ InitWrites(out') # {}
            \/ initPc' = "running" /\ HandshakeSent(initPc, swIdx) = 69
       /\ (\E i \in 1..Len(out') : out'[i].actor = "poll") =>
            /\ initPc = "running"
            /\ swIdx = 64]_vars

\* the query for switch 11 (row 1, column 1) is the tenth switch query
C12_Witness ==
    /\ initPc = "switch"
    /\ swIdx = 9
    /\ Len(out) = 1
    /\ out[1].cmd = "SwitchesGetStatusOfSwitch"
    /\ out[1].payload = <<11>>

RuleOps == {"set_pulse_on_hit_rule", "set_pulse_on_hit_and_release_rule",
            "set_pulse_on_hit_and_enable_and_release_rule",
            "set_pulse_on_hit_and_enable_and_release_and_disable_rule",
            "clear_hw_rule"}

\* C13: each of the five hardware rule requests can be made in every state
\* of the platform, ends in an AssertionError, writes nothing, and leaves the
\* switch-state cache, the hardware profile, the connection, the poll task
\* and every driver handle's stored pulse duration as they were.
C13_HwRulesAlwaysFail ==
    /\ [](/\ ENABLED set_pulse_on_hit_rule
          /\ ENABLED set_pulse_on_hit_and_release_rule
          /\ ENABLED set_pulse_on_hit_and_enable_and_release_rule
          /\ ENABLED set_pulse_on_hit_and_enable_and_release_and_disable_rule
          /\ ENABLED clear_hw_rule)
    /\ [][(call'.op \in RuleOps) =>
               /\ call'.result = "AssertionError"
               /\ out' = <<>>
               /\ emitted' = <<>>
               /\ UNCHANGED <<inputs, system_type, number_of_lamps,
                              number_of_solenoids, number_of_displays, drivers,
                              pulse_time, writer, rxbuf, devPending, poll_task,
                              initPc, switch_controller>>]_vars

\* a rule request failed on a running platform that has a driver handle with
\* a stored pulse duration and a filled cache
C13_Witness ==
    /\ call.op = "set_pulse_on_hit_rule"
    /\ call.result = "AssertionError"
    /\ Len(drivers) > 0
    /\ drivers[1].pulse_ms = 10
    /\ Cardinality(DOMAIN inputs) = 64
    /\ poll_task = "read"

\* the "set pulse time" commands among the writes ws
PulseTimeWrites(ws) ==
    {i \in 1..Len(ws) : ws[i].cmd = "SolenoidsSetSolenoidPulseTime"}

\* C14: for every pulse duration d in 0..65535, a pulse or enable call whose
\* duration d differs from the stored one writes a "set pulse time" command
\* carrying the solenoid number, high = d div 256 and low = d mod 256, both in
\* 0..255, and high * 256 + low = d; 1000 is carried as 3, 232.
C14_PulseTimeBytes ==
    [][(call'.op \in PulseOps /\ call'.arg[2] \in 0..(MaxPulse - 1)) =>
         LET d == call'.arg[2]
             h == call'.arg[1]
         IN /\ (d # drivers[h].pulse_ms) <=> (PulseTimeWrites(out') # {})
            /\ \A i \in PulseTimeWrites(out') :
                 LET p == out'[i].payload
                 IN /\ Len(p) = 3
                    /\ p[1] = drivers[h].number
                    /\ p[2] = d \div 256
                    /\ p[3] = d % 256
                    /\ p[2] \in 0..255
                    /\ p[3] \in 0..255
                    /\ p[2] * 256 + p[3] = d
                    /\ (d = 1000) => (p[2] = 3 /\ p[3] = 232)]_vars

\* a pulse with duration 1000 wrote the pulse time 3, 232
C14_Witness ==
    /\ call.op = "pulse"
    /\ call.arg[2] = 1000
    /\ call.result = "ok"
    /\ Len(out) = 2
    /\ out[1].cmd = "SolenoidsSetSolenoidPulseTime"
    /\ out[1].payload[2] = 3
    /\ out[1].payload[3] = 232

\* the last step was the poll task writing its query
PollWrote == Len(out) = 1 /\ out[1].actor = "poll" /\ out[1].cmd = Query

\* C15: once running, the poll task ends only after stop() or a failure of
\* the connection; while the connection is open, from every state in which
\* the task waits (for its first run, for a reply, with a reply of any value
\* buffered, or in its sleep) it writes another "get changed switches" query.
C15_PollNeverTerminates ==
    /\ [][(PollAlive /\ ~PollAlive') => (cancelRequested \/ writer = "closed")]_vars
    /\ [][(PollStep /\ writer = "open") => (poll_task' = "sleep" \/ PollWrote')]_vars
    /\ (initPc = "running" /\ PollAlive /\ writer = "open" /\ out = <<>>)
           ~> (writer = "closed" \/ PollWrote)

\* the poll task read a byte that decodes to no valid address and wrote the
\* next query
C15_Witness ==
    /\ poll_task = "read"
    /\ writer = "open"
    /\ emitted = <<<<Str(9), 1, "lisy">>>>
    /\ PollWrote
    /\ devPending # None

\* reply-expecting commands written and delivered whose reply was not read
Outstanding ==
    (IF devPending # None THEN 1 ELSE 0) + (IF rxbuf # <<>> THEN 1 ELSE 0)

\* the reply-expecting commands among the writes ws
ReplyExpectedWrites(ws) == {i \in 1..Len(ws) : ws[i].cmd \in ReplyExpected}

\* C16: during one handshake followed by poll cycles and device-handle
\* commands, at most one reply-expecting command is outstanding: such a
\* command is written, one per step, only when every earlier one was answered
\* and its reply read; a device-handle command reads nothing and expects no
\* reply; every byte the poll task reads answers its own query.
C16_OneOutstandingReply ==
    /\ [](Outstanding \in {0, 1})
    /\ [][/\ (ReplyExpectedWrites(out') # {}) =>
               /\ Cardinality(ReplyExpectedWrites(out')) = 1
               /\ devPending = None
               /\ rxbuf' = <<>>
          /\ (call'.op \in HandleOps) =>
               /\ UNCHANGED <<rxbuf, devPending>>
               /\ ReplyExpectedWrites(out') = {}
          /\ PollStep => rxbuf[2] = <<Query, <<>>>>
          /\ (rxbuf # <<>> /\ rxbuf' = <<>>) => (PollStep \/ InitStep)]_vars

\* a device-handle command was written while the reply to the poll task's
\* query was buffered and not yet read
C16_Witness ==
    /\ call.op = "disable"
    /\ Len(out) = 1
    /\ out[1].delivered
    /\ poll_task = "read"
    /\ rxbuf # <<>>
    /\ rxbuf[2][1] = Query

\* C17: once stop() has closed the connection, no poll task is created or
\* running: a poll task that exists then has been cancelled by that stop(),
\* also when stop() came while initialize() was suspended in a handshake read.
C17_NoPollAfterStop ==
    (writer = "closed" /\ PollAlive) => cancelRequested

\* C18: whenever a pulse or set-to-on command for solenoid number n is
\* written by a call that asks for a duration of 0..65535, the last "set pulse
\* time" command written for n carries that duration, whichever driver
\* handles of number n the earlier calls were made on.
C18_PulseTimeMatchesRequest ==
    [][(/\ call'.op \in PulseOps
        /\ call'.result = "ok"
        /\ call'.arg[2] < MaxPulse) =>
         LET n == drivers[call'.arg[1]].number
         IN /\ out'[Len(out')].cmd = OpCmd(call'.op)
            /\ out'[Len(out')].payload = <<n>>
            /\ n \in DOMAIN pulse_time'
            /\ pulse_time'[n] = call'.arg[2]]_vars

\* the addresses the bulk switch read of the handshake stores
SwitchAddresses == {SwitchNumber(i) : i \in 0..(NumSwitches - 1)}

\* C19: configure_switch accepts a number exactly when it is one of the 64
\* addresses row*10+col the bulk read stores, so an accepted switch has its
\* entry in the cache; every other integer, negative ones too, is rejected.
C19_SwitchNumberChecked ==
    (call.op = "configure_switch") =>
        /\ (call.result = "ok") <=> (call.arg[1] \in SwitchAddresses)
        /\ (call.result = "ok") => (Str(call.arg[1]) \in DOMAIN inputs)
        /\ call.result \in {"ok", "AssertionError"}

\* C20: for every pulse duration up to and including the advertised
\* max_pulse, the "set pulse time" payload has all its values in 0..255, and
\* pulse and enable do not fail while they encode the command.
C20_MaxPulseEncodable ==
    (call.op \in PulseOps /\ call.arg[2] \in 0..MaxPulse) =>
        /\ IsBytes(PulseTimePayload(drivers[call.arg[1]].number, call.arg[2]))
        /\ call.result = "ok"

====
